---------------------------- MODULE Spec2Model ----------------------------
(***************************************************************************)
(* Model of the Senzomatic client, custom_components/senzomatic/api.py.    *)
(*                                                                         *)
(* A text (str) is a sequence of tokens.  URLs and page bodies are lexed   *)
(* into separators ("/", "?") and the words between them; a label or a     *)
(* hardware-model value is lexed into single characters, so strip(),       *)
(* lower() and len() act on it as they do in Python.  The empty string is  *)
(* <<>>.  An optional value is a sequence of at most one element: None is  *)
(* <<>> and a present value v is <<v>>.                                    *)
(*                                                                         *)
(* Every coroutine is cut at its HTTP requests: one action is one request, *)
(* its response (chosen by the upstream) and all the code that runs up to  *)
(* the next request or the return.  The caller issues one public call at a *)
(* time.                                                                   *)
(***************************************************************************)
EXTENDS Integers, Sequences, FiniteSets, TLC

VARIABLES
    authenticated,      \* self.authenticated
    installation_id,    \* self.installation_id (optional text)
    op,                 \* the public operation the caller runs ("none" before the first)
    pc,                 \* the request the running coroutine issues next, or "idle"
    ret,                \* what the last finished public operation returned or raised
    devices,            \* async_get_data: the list it iterates
    di,                 \* async_get_data: index of the current device
    mi,                 \* async_get_data: index of the current metric
    device_data,        \* async_get_data: the current device's readings
    result,             \* async_get_data: the snapshot under construction
    arg,                \* async_get_sensor_data's arguments (device_id, metric)
    found,              \* async_authenticate: its local installation_id (optional text)
    log,                \* history: the requests issued by the current public call
    pre,                \* history: authenticated / installation_id when the call began
    authRan,            \* history: outcome of async_authenticate inside the call
    fault,              \* history: a request or parsing step of the call failed
    page,               \* history: the dashboard body the device list was read from
    lastResp,           \* history: the response to the latest metric request, where kept
    coord               \* the polling coordinator and the sensor platform of the host

vars == <<authenticated, installation_id, op, pc, ret, devices, di, mi,
          device_data, result, arg, found, log, pre, authRan, fault, page, lastResp,
          coord>>

-----------------------------------------------------------------------------
(* Optional values and texts *)

None == <<>>

Some(v) == <<v>>

\* Python truthiness of an optional text: None and '' are falsy.
Truthy(o) == o # None /\ o[1] # <<>>

\* i is the start of an occurrence of sub in s.
OccursAt(s, sub, i) ==
    /\ i >= 1
    /\ i + Len(sub) - 1 <= Len(s)
    /\ \A k \in 1..Len(sub) : s[i + k - 1] = sub[k]

\* Python's `sub in s`.
Contains(s, sub) == \E i \in 1..(Len(s) + 1) : OccursAt(s, sub, i)

\* Start of the first occurrence of sub in s, or 0.
FindFirst(s, sub) ==
    IF Contains(s, sub)
    THEN CHOOSE i \in 1..(Len(s) + 1) :
            OccursAt(s, sub, i) /\ \A j \in 1..(i - 1) : ~OccursAt(s, sub, j)
    ELSE 0

\* Python's s.split(sep) for a non-empty sep.
RECURSIVE Split(_, _)
Split(s, sep) ==
    LET i == FindFirst(s, sep)
    IN  IF i = 0 THEN <<s>>
        ELSE <<SubSeq(s, 1, i - 1)>> \o Split(SubSeq(s, i + Len(sep), Len(s)), sep)

\* Python's str.lower() on one token.
LowerTok(c) ==
    CASE c = "N" -> "n"
      [] c = "O" -> "o"
      [] c = "E" -> "e"
      [] c = "U" -> "u"
      [] c = "L" -> "l"
      [] c = "K" -> "k"
      [] c = "W" -> "w"
      [] c = "M" -> "m"
      [] c = "H" -> "h"
      [] c = "T" -> "t"
      [] c = "Alert" -> "alert"
      [] c = "Error" -> "error"
      [] OTHER -> c

Lower(s) == [i \in 1..Len(s) |-> LowerTok(s[i])]

IsSpace(c) == c = " "

\* Python's str.strip(): leading and trailing whitespace removed.
RECURSIVE LStrip(_)
LStrip(s) == IF s # <<>> /\ IsSpace(Head(s)) THEN LStrip(Tail(s)) ELSE s

RECURSIVE RStrip(_)
RStrip(s) ==
    IF s # <<>> /\ IsSpace(s[Len(s)]) THEN RStrip(SubSeq(s, 1, Len(s) - 1)) ELSE s

Strip(s) == RStrip(LStrip(s))

-----------------------------------------------------------------------------
(* URLs (const.py) *)

LOGIN_URL == <<"https://erp.mgrd.cz", "/", "cs", "/", "users", "/", "sign_in">>

DASHBOARD_BASE_URL == <<"https://dashboards.mgrd.cz">>

CHARTS == <<"/", "charts", "/">>

\* url.split("/charts/")[1].split('/')[0].split('?')[0], for a url holding "/charts/".
ChartsSegment(url) == Split(Split(Split(url, CHARTS)[2], <<"/">>)[1], <<"?">>)[1]

\* `if "/charts/" in url: ... installation_id = <segment>`; None when absent.
IdFromUrl(url) ==
    IF Contains(url, CHARTS)
    THEN IF Len(Split(url, CHARTS)) > 1 THEN Some(ChartsSegment(url)) ELSE None
    ELSE None

(* Page bodies searched for an installation id.  A body is a sequence of   *)
(* fragments [k, id]: k is the text that precedes the id in the page.      *)

\* The id the urls carry.
UrlId == <<"abc-123">>

\* The id the page bodies carry where the first matching pattern finds it: 36
\* characters, all of [a-f0-9-].
BodyId == <<"7d9f2c1e-5b1a-4c3e-9f00-3a2b1c0d9e8f">>

\* An id the page bodies carry where only a later pattern finds it.
OtherId == <<"def-456">>

UuidShaped(id) == id = BodyId

\* id_patterns, in list order: the fragment kinds each pattern matches.
id_patterns ==
    << [k |-> {"installation_id", "data-installation-id"}, len36 |-> FALSE],
       [k |-> {"charts/", "/charts/"}, len36 |-> FALSE],
       [k |-> {"vmproxy.mgrd.cz/api/v1/"}, len36 |-> FALSE] >>

\* chart_patterns, in list order; the first one takes an id of 36 characters.
chart_patterns ==
    << [k |-> {"/charts/"}, len36 |-> TRUE],
       [k |-> {"charts/", "/charts/"}, len36 |-> FALSE],
       [k |-> {"installation_id", "data-installation-id"}, len36 |-> FALSE],
       [k |-> {"vmproxy.mgrd.cz/api/v1/"}, len36 |-> FALSE],
       [k |-> {"data-installation-id"}, len36 |-> FALSE] >>

\* Fragment f is a match of pattern number p of the list pats.
FragMatches(pats, p, f) ==
    /\ f.k \in pats[p].k
    /\ pats[p].len36 => UuidShaped(f.id)

\* re.search / re.findall(...)[0]: the id of the first fragment pattern p matches.
FirstMatch(pats, p, content) ==
    LET hits == {i \in 1..Len(content) : FragMatches(pats, p, content[i])}
    IN  IF hits = {} THEN None
        ELSE Some(content[CHOOSE i \in hits : \A j \in hits : i <= j].id)

\* `for pattern in patterns: ... if match: installation_id = ...; break`:
\* the match of the first pattern that has one, else the value held before.
RECURSIVE SearchFrom(_, _, _, _)
SearchFrom(pats, p, content, before) ==
    IF p > Len(pats) THEN before
    ELSE IF FirstMatch(pats, p, content) # None THEN FirstMatch(pats, p, content)
    ELSE SearchFrom(pats, p + 1, content, before)

SearchPatterns(pats, content, before) == SearchFrom(pats, 1, content, before)

\* The login page: re.search(r'name="authenticity_token" value="([^"]*)"', content).
token_match(content) == Contains(content, <<"authenticity_token">>)

-----------------------------------------------------------------------------
(* Values returned to the caller *)

EmptyFn == [x \in {} |-> 0]

\* {} as returned by async_get_sensor_data: a JSON object without keys.
EmptyMap == [top |-> "dict", data |-> "absent", result |-> <<>>]

\* {} as returned by async_get_data: a snapshot without its two keys.
EmptyDict == [keys |-> FALSE, devices |-> <<>>, sensors |-> EmptyFn]

RetNone == [kind |-> "none", ok |-> FALSE, devices |-> <<>>, data |-> EmptyMap,
            snapshot |-> EmptyDict]

RetBool(b) == [RetNone EXCEPT !.kind = "bool", !.ok = b]

RetList(l) == [RetNone EXCEPT !.kind = "list", !.devices = l]

RetMap(j) == [RetNone EXCEPT !.kind = "map", !.data = j]

RetSnapshot(s) == [RetNone EXCEPT !.kind = "snapshot", !.snapshot = s]

\* The call ended with an exception propagating to the caller.
RetRaise == [RetNone EXCEPT !.kind = "exception"]

-----------------------------------------------------------------------------
(* The upstream's possible answers to the requests of async_authenticate *)

Frag(kind, id) == [k |-> kind, id |-> id]

TokenPage == <<"form", "authenticity_token", "value">>

NoTokenPage == <<"form">>

\* Transport error: the request raises.
ConnErr == [exc |-> TRUE, status |-> 0, url |-> <<>>, location |-> <<>>,
            textexc |-> FALSE, content |-> <<>>]

Resp(status, url, location, textexc, content) ==
    [exc |-> FALSE, status |-> status, url |-> url, location |-> location,
     textexc |-> textexc, content |-> content]

LoginPageResponses ==
    {ConnErr} \cup
    {Resp(st, LOGIN_URL, <<>>, te, c) :
        st \in {200, 500}, te \in BOOLEAN, c \in {TokenPage, NoTokenPage}}

ChartsUrl == DASHBOARD_BASE_URL \o <<"/", "cs">> \o CHARTS

\* Values of the Location header of the login redirect ('' when it is missing).
Locations ==
    { <<>>,
      DASHBOARD_BASE_URL \o <<"/", "cs">>,
      ChartsUrl \o UrlId,
      ChartsUrl \o UrlId \o <<"?", "locale=cs">>,
      ChartsUrl \o UrlId \o <<"/", "edit">>,
      ChartsUrl }

\* The login POST is sent with allow_redirects=False: the response's url is the
\* url the request went to.
PostResponseUrl == LOGIN_URL

LoginPostResponses ==
    {ConnErr} \cup
    {Resp(302, PostResponseUrl, loc, FALSE, <<>>) : loc \in Locations} \cup
    {Resp(200, PostResponseUrl, <<>>, te, c) :
        te \in BOOLEAN, c \in {<<"Welcome">>, <<"Alert">>, <<"login", "Error">>}} \cup
    {Resp(500, PostResponseUrl, <<>>, FALSE, <<>>)}

\* Final urls of a GET that follows redirects.
FinalUrls ==
    { DASHBOARD_BASE_URL \o <<"/", "cs">>,
      ChartsUrl \o UrlId \o <<"?", "x=1">>,
      ChartsUrl }

OAuthBodies ==
    { <<>>,
      <<Frag("installation_id", BodyId)>>,
      <<Frag("vmproxy.mgrd.cz/api/v1/", OtherId), Frag("charts/", BodyId)>> }

DashBodies ==
    { <<>>,
      <<Frag("charts/", OtherId), Frag("/charts/", BodyId)>>,
      <<Frag("data-installation-id", BodyId)>> }

OAuthResponses ==
    {ConnErr} \cup
    {Resp(st, u, <<>>, te, c) :
        st \in {200, 403}, u \in FinalUrls, te \in BOOLEAN, c \in OAuthBodies}

DashFallbackResponses ==
    {ConnErr} \cup
    {Resp(st, u, <<>>, te, c) :
        st \in {200, 404}, u \in FinalUrls, te \in BOOLEAN, c \in DashBodies}

-----------------------------------------------------------------------------
(* async_authenticate, request by request.  Each operator gives what the    *)
(* code does with one response: raise, return, or go on to the next request.*)

Raise ==
    [exc |-> TRUE, returned |-> FALSE, ok |-> FALSE, failed |-> TRUE,
     auth |-> authenticated, inst |-> installation_id, found |-> found,
     next |-> "idle"]

Return(b, failed) == [Raise EXCEPT !.exc = FALSE, !.returned = TRUE, !.ok = b,
                                   !.failed = failed]

Goto(next) == [Raise EXCEPT !.exc = FALSE, !.failed = FALSE, !.next = next]

\* Lines 46-60: the login page.
LoginPageStep(r) ==
    IF r.exc THEN Raise
    ELSE IF r.status # 200 THEN Return(FALSE, FALSE)
    ELSE IF r.textexc THEN Raise
    ELSE IF ~token_match(r.content) THEN Return(FALSE, TRUE)
    ELSE Goto("login_post")

\* Mutant of StayedOnLoginPage: the response's url is not looked at.
StayedOnLoginPage_BodyOnly(r) ==
    \/ Contains(Lower(r.content), <<"alert">>)
    \/ Contains(Lower(r.content), <<"error">>)

\* Line 94: the markers of a failed login.
StayedOnLoginPage(r) ==
    \/ Contains(Lower(r.url), <<"sign_in">>)
    \/ Contains(Lower(r.content), <<"alert">>)
    \/ Contains(Lower(r.content), <<"error">>)

\* Mutant of LoginPostStep: a redirect never ends the call, the OAuth request
\* always follows it.
LoginPostStep_NoShortCircuit(r) ==
    IF r.exc THEN Raise
    ELSE IF r.status = 302 THEN Goto("oauth_get")
    ELSE IF r.status = 200 THEN
        IF r.textexc THEN Raise
        ELSE IF StayedOnLoginPage(r) THEN Return(FALSE, FALSE)
        ELSE Goto("oauth_get")
    ELSE Return(FALSE, FALSE)

\* Lines 71-99: the credential POST.
LoginPostStep(r) ==
    IF r.exc THEN Raise
    ELSE IF r.status = 302 THEN
        IF Contains(r.location, CHARTS) /\ Len(Split(r.location, CHARTS)) > 1
        THEN [Return(TRUE, FALSE) EXCEPT !.inst = Some(ChartsSegment(r.location)),
                                         !.auth = TRUE]
        ELSE Goto("oauth_get")
    ELSE IF r.status = 200 THEN
        IF r.textexc THEN Raise
        ELSE IF StayedOnLoginPage(r) THEN Return(FALSE, FALSE)
        ELSE Goto("oauth_get")
    ELSE Return(FALSE, FALSE)

\* Lines 176-187: store the id; fail without one, else mark authenticated.
StoreId(id) ==
    IF ~Truthy(id)
    THEN [Return(FALSE, FALSE) EXCEPT !.inst = id, !.found = id]
    ELSE [Return(TRUE, FALSE) EXCEPT !.inst = id, !.found = id, !.auth = TRUE]

\* Lines 106-143: the OAuth GET, its final url and its body.
OAuthStep(r) ==
    IF r.exc THEN Raise
    ELSE IF r.status # 200 THEN Return(FALSE, FALSE)
    ELSE LET fromUrl == IdFromUrl(r.url)
         IN  IF Truthy(fromUrl) THEN StoreId(fromUrl)
             ELSE IF r.textexc THEN Raise
             ELSE LET id == SearchPatterns(id_patterns, r.content, fromUrl)
                  IN  IF Truthy(id) THEN StoreId(id)
                      ELSE [Goto("dash_fallback_get") EXCEPT !.found = id]

\* Lines 143-187: the generic dashboard GET, its final url and its body.
DashFallbackStep(r) ==
    IF r.exc THEN Raise
    ELSE IF Contains(r.url, CHARTS)
    THEN IF Len(Split(r.url, CHARTS)) > 1 THEN StoreId(Some(ChartsSegment(r.url)))
         ELSE StoreId(found)
    ELSE IF r.textexc THEN Raise
    ELSE StoreId(SearchPatterns(chart_patterns, r.content, found))

\* Mutant of async_authenticate_except: the exception is not caught.
async_authenticate_uncaught(out) == out

\* Lines 189-191: `except Exception: return False`.
async_authenticate_except(out) ==
    IF out.exc THEN [out EXCEPT !.exc = FALSE, !.returned = TRUE, !.ok = FALSE]
    ELSE out

-----------------------------------------------------------------------------
(* async_get_device_list: the dashboard body and the four patterns.  The    *)
(* body is a sequence of entries, one per JSON object of the page:          *)
(*   key "bare":       "<uuid>": { <fields> }                               *)
(*   key "id":         { "id": "<uuid>", <fields> }                         *)
(*   key "device_id":  { "device_id": "<uuid>", <fields> }                  *)
(* with <fields> a sequence of "<n>": "<v>" pairs, v a non-empty text.      *)

Field(n, v) == [n |-> n, v |-> v]

Entry(key, uuid, fields) == [key |-> key, uuid |-> uuid, fields |-> fields]

\* device_uuid_patterns, in list order: the key the pattern starts at and the
\* names of the two fields it captures, in the order of its groups 2 and 3.
device_uuid_patterns ==
    << [key |-> "bare", g2 |-> "label", g3 |-> "hw_part"],
       [key |-> "id", g2 |-> "label", g3 |-> "hw_part"],
       [key |-> "device_id", g2 |-> "label", g3 |-> "model"],
       [key |-> "bare", g2 |-> "hw_part", g3 |-> "label"] >>

\* Positions (i, j), i < j, of a field named g2 followed by a field named g3.
FieldPairs(p, e) ==
    {ij \in (1..Len(e.fields)) \X (1..Len(e.fields)) :
        /\ ij[1] < ij[2]
        /\ e.fields[ij[1]].n = p.g2
        /\ e.fields[ij[2]].n = p.g3}

\* The greedy [^{}]* before each field name: the last g2 that a g3 follows,
\* and the last g3 after it.
GreedyPair(p, e) ==
    CHOOSE ij \in FieldPairs(p, e) :
        \A kl \in FieldPairs(p, e) :
            \/ kl[1] < ij[1]
            \/ kl[1] = ij[1] /\ kl[2] <= ij[2]

\* The match tuple (group 1, group 2, group 3) of pattern p in entry e, if any.
MatchEntry(p, e) ==
    IF e.key = p.key /\ FieldPairs(p, e) # {}
    THEN << <<e.uuid, e.fields[GreedyPair(p, e)[1]].v,
                      e.fields[GreedyPair(p, e)[2]].v>> >>
    ELSE <<>>

\* re.findall(pattern, content): the matches in the order of the page.
RECURSIVE findall(_, _)
findall(p, content) ==
    IF content = <<>> THEN <<>>
    ELSE MatchEntry(p, Head(content)) \o findall(p, Tail(content))

\* Line 231: ['unknown', 'null', 'none', ''].
Placeholders ==
    { <<"u", "n", "k", "n", "o", "w", "n">>, <<"n", "u", "l", "l">>,
      <<"n", "o", "n", "e">>, <<>> }

\* Mutant of MeaningfulMatch: the placeholders are compared without lower().
MeaningfulMatch_CaseSensitive(label, hw_part) ==
    /\ Strip(label) # <<>>
    /\ Strip(hw_part) # <<>>
    /\ Strip(hw_part) \notin Placeholders
    /\ Len(Strip(hw_part)) > 2

\* Lines 229-232: the filter on a match's label and hw_part.
MeaningfulMatch(label, hw_part) ==
    /\ Strip(label) # <<>>
    /\ Strip(hw_part) # <<>>
    /\ Lower(Strip(hw_part)) \notin Placeholders
    /\ Len(Strip(hw_part)) > 2

\* Lines 233-238: the device stored for a match.
DeviceOf(uuid, label, hw_part) ==
    [uuid |-> uuid, name |-> Strip(label), model |-> Strip(hw_part), id |-> uuid]

\* Line 227: uuid, label, hw_part = match[0], match[1], match[2].
MatchDevice(match) == DeviceOf(match[1], match[2], match[3])

MatchAccepted(match) == MeaningfulMatch(match[2], match[3])

\* Mutant of DictSet: a known uuid keeps its first value (setdefault).
DictSet_KeepFirst(dd, d) ==
    IF \E i \in 1..Len(dd) : dd[i].uuid = d.uuid THEN dd ELSE Append(dd, d)

\* device_data[uuid] = {...} on a dict, kept as the list of its values in
\* insertion order: a known uuid keeps its place and takes the new value.
DictSet(dd, d) ==
    IF \E i \in 1..Len(dd) : dd[i].uuid = d.uuid
    THEN [i \in 1..Len(dd) |-> IF dd[i].uuid = d.uuid THEN d ELSE dd[i]]
    ELSE Append(dd, d)

\* Lines 225-238: the inner loop over one pattern's matches.
RECURSIVE StoreMatches(_, _)
StoreMatches(dd, matches) ==
    IF matches = <<>> THEN dd
    ELSE StoreMatches(IF MatchAccepted(Head(matches))
                      THEN DictSet(dd, MatchDevice(Head(matches)))
                      ELSE dd,
                      Tail(matches))

\* Lines 223-238: the outer loop over the patterns, from pattern number p on.
RECURSIVE StorePatterns(_, _, _)
StorePatterns(dd, p, content) ==
    IF p > Len(device_uuid_patterns) THEN dd
    ELSE StorePatterns(StoreMatches(dd, findall(device_uuid_patterns[p], content)),
                       p + 1, content)

\* Lines 209-248: the devices extracted from a dashboard body.
ExtractDevices(content) == StorePatterns(<<>>, 1, content)

-----------------------------------------------------------------------------
(* The dashboard bodies the upstream may serve *)

V_Kit == <<"K", "i", "t">>

V_Hall == <<" ", "H", "a", "l", "l", " ">>

V_MHT02 == <<"M", "H", "T", "0", "2">>

V_HT03 == <<" ", "H", "T", "0", "3", " ">>

V_None == <<" ", "n", "O", "n", "E", " ">>

V_Unknown == <<"U", "n", "k", "n", "o", "w", "n">>

V_NULL == <<"N", "U", "L", "L">>

V_ab == <<" ", "a", "b">>

V_blank == <<" ">>

\* The entries of device u with label l and hardware model h that some
\* pattern matches: one per pattern, one that the first and the fourth pattern
\* both match, and one that no pattern matches.
EntriesOf(u, l, h) ==
    { Entry("bare", u, <<Field("label", l), Field("hw_part", h)>>),
      Entry("id", u, <<Field("label", l), Field("hw_part", h)>>),
      Entry("device_id", u, <<Field("label", l), Field("model", h)>>),
      Entry("bare", u, <<Field("hw_part", h), Field("label", l)>>),
      Entry("bare", u, <<Field("label", l), Field("hw_part", h), Field("label", V_Kit)>>),
      Entry("bare", u, <<Field("label", l), Field("model", h)>>) }

\* Entries with usable values; the first device appears under two labels.
GoodEntries ==
    EntriesOf("u1", V_Kit, V_MHT02) \cup EntriesOf("u1", V_Hall, V_HT03)
        \cup EntriesOf("u2", V_Hall, V_HT03)

\* Entries of the first device whose label or model is blank, short or a
\* placeholder, in both field orders.
PoorEntries ==
    UNION { { Entry("bare", "u1", <<Field("label", lh[1]), Field("hw_part", lh[2])>>),
              Entry("bare", "u1", <<Field("hw_part", lh[2]), Field("label", lh[1])>>) } :
            lh \in { <<V_Kit, V_None>>, <<V_Kit, V_Unknown>>, <<V_Kit, V_NULL>>,
                     <<V_Kit, V_ab>>, <<V_Kit, V_blank>>, <<V_blank, V_MHT02>>,
                     <<V_ab, V_MHT02>> } }

Entries == GoodEntries \cup PoorEntries

\* Bound: the number of entries of a dashboard body.
MaxEntries == 2

RECURSIVE SeqsUpTo(_, _)
SeqsUpTo(S, n) ==
    IF n = 0 THEN {<<>>}
    ELSE SeqsUpTo(S, n - 1) \cup
         {Append(q, e) : q \in {x \in SeqsUpTo(S, n - 1) : Len(x) = n - 1}, e \in S}

AllContents == SeqsUpTo(Entries, MaxEntries)

\* The bodies served while the whole client is exercised: no device, one
\* device, two devices, and one usable device beside a placeholder one.
E_first == Entry("bare", "u1", <<Field("label", V_Kit), Field("hw_part", V_MHT02)>>)

E_second == Entry("id", "u2", <<Field("label", V_Hall), Field("hw_part", V_HT03)>>)

E_poor == Entry("bare", "u1", <<Field("label", V_Kit), Field("hw_part", V_None)>>)

FewContents ==
    { <<>>, <<E_first>>, <<E_first, E_second>>, <<E_poor, E_second>> }

DeviceListResponses(contents) ==
    {ConnErr} \cup
    {Resp(st, ChartsUrl, <<>>, te, c) :
        st \in {200, 401}, te \in BOOLEAN, c \in contents}

-----------------------------------------------------------------------------
(* The metric endpoint.  A JSON document is [top, data, result]: top is     *)
(* "list" for a document that is no object; data is "absent", "null" or     *)
(* "dict"; result is data.result, a list of series, each the list of its    *)
(* samples (its "values"), each sample a list of atoms.                     *)

\* Mutant of metrics: moisture is asked for first.
metrics_MoistureFirst ==
    << "moisture", "temperature_ambient_celsius", "rel_humidity_ambient_pct",
       "abs_humidity_ambient_gm3" >>

metrics ==
    << "temperature_ambient_celsius", "rel_humidity_ambient_pct",
       "abs_humidity_ambient_gm3", "moisture" >>

Json(top, data, series) == [top |-> top, data |-> data, result |-> series]

Sample(ts, v) == <<ts, v>>

\* Documents with one numeric sample at most.
MetricJsons ==
    { Json("list", "absent", <<>>),
      EmptyMap,
      Json("dict", "null", <<>>),
      Json("dict", "dict", <<>>),
      Json("dict", "dict", << <<>> >>),
      Json("dict", "dict", << <<Sample("1000", "1")>> >>),
      Json("dict", "dict", << <<Sample("1000", "1"), Sample("1300", "x")>> >>),
      Json("dict", "dict", << <<Sample("1000", "1"), Sample("1300", "null")>> >>),
      Json("dict", "dict", << <<Sample("1000", "1"), <<"1300">>>> >>) }

\* Documents with several numeric samples or several series.
LongMetricJsons ==
    { Json("dict", "dict", << <<Sample("1000", "1"), Sample("1300", "2")>> >>),
      Json("dict", "dict", << <<Sample("1000", "2"), Sample("1300", "1")>> >>),
      Json("dict", "dict", << <<Sample("1000", "2")>>, <<Sample("1000", "1")>> >>) }

\* A metric response: the request raises, or answers with a status and a body
\* that response.json() parses (jsonexc: it raises).
MetricErr == [exc |-> TRUE, status |-> 0, jsonexc |-> FALSE, json |-> EmptyMap]

MetricResponses(jsons) ==
    {MetricErr} \cup
    {[exc |-> FALSE, status |-> 500, jsonexc |-> FALSE, json |-> EmptyMap],
     [exc |-> FALSE, status |-> 200, jsonexc |-> TRUE, json |-> EmptyMap]} \cup
    {[exc |-> FALSE, status |-> 200, jsonexc |-> FALSE, json |-> j] : j \in jsons}

NoResp == [exc |-> FALSE, status |-> 0, jsonexc |-> FALSE, json |-> EmptyMap]

\* float(latest_value) for the atoms of the model; "x" is no number.
IsNumeric(a) == a \in {"1", "2"}

ParseFloat(a) == IF a = "1" THEN 1 ELSE 2

\* Lines 325-333: the reading taken from the document async_get_sensor_data
\* returned: [exc: an exception was raised, has: a reading was stored, value].
NoReading == [exc |-> FALSE, has |-> FALSE, value |-> 0]

\* Mutant of ExtractLatest: the first sample of the series is taken.
ExtractLatest_First(data) ==
    IF data.top # "dict" THEN [NoReading EXCEPT !.exc = TRUE]
    ELSE IF data.data = "absent" THEN NoReading
    ELSE IF data.data = "null" THEN [NoReading EXCEPT !.exc = TRUE]
    ELSE IF data.result = <<>> THEN NoReading
    ELSE LET values == data.result[1]
         IN  IF values = <<>> THEN NoReading
             ELSE LET first == values[1]
                  IN  IF Len(first) < 2 THEN [NoReading EXCEPT !.exc = TRUE]
                      ELSE IF first[2] = "null" THEN NoReading
                      ELSE IF ~IsNumeric(first[2]) THEN [NoReading EXCEPT !.exc = TRUE]
                      ELSE [exc |-> FALSE, has |-> TRUE, value |-> ParseFloat(first[2])]

ExtractLatest(data) ==
    IF data.top # "dict" THEN [NoReading EXCEPT !.exc = TRUE]
    ELSE IF data.data = "absent" THEN NoReading
    ELSE IF data.data = "null" THEN [NoReading EXCEPT !.exc = TRUE]
    ELSE IF data.result = <<>> THEN NoReading
    ELSE LET values == data.result[1]
         IN  IF values = <<>> THEN NoReading
             ELSE LET last == values[Len(values)]
                  IN  IF Len(last) < 2 THEN [NoReading EXCEPT !.exc = TRUE]
                      ELSE IF last[2] = "null" THEN NoReading
                      ELSE IF ~IsNumeric(last[2]) THEN [NoReading EXCEPT !.exc = TRUE]
                      ELSE [exc |-> FALSE, has |-> TRUE, value |-> ParseFloat(last[2])]

-----------------------------------------------------------------------------
(* The host side: the polling coordinator of __init__.py and the sensor    *)
(* platform of sensor.py.  The coordinator keeps what _async_update_data   *)
(* returned as its data and counts the update as successful unless the     *)
(* call raised (UpdateFailed); sensor.py reads both.                       *)

SENSOR_TEMPERATURE == "temperature_ambient_celsius"

SENSOR_REL_HUMIDITY == "rel_humidity_ambient_pct"

SENSOR_ABS_HUMIDITY == "abs_humidity_ambient_gm3"

SENSOR_MOISTURE == "moisture"

\* The order in which async_setup_entry looks for the four sensor types.
SensorTypes ==
    <<SENSOR_TEMPERATURE, SENSOR_REL_HUMIDITY, SENSOR_ABS_HUMIDITY, SENSOR_MOISTURE>>

\* The coordinator before its first refresh: no data, no entity.  phase is
\* the point the host has reached: "new", "first_refresh" (the first refresh
\* runs), "refreshed", "running" (the platform is set up), "polling" (a later
\* refresh runs), "not_ready" (the first refresh failed).  `first` is history:
\* the data after the first refresh.
CoordInit ==
    [phase |-> "new", data |-> None, last_update_success |-> TRUE,
     entities |-> <<>>, first |-> None]

\* `if not self.coordinator.data` / `coordinator.data and ...`: None and the
\* empty dict are falsy.
DataTruthy(data) == data # None /\ data[1].keys

\* coordinator.data.get("sensors", {}).get(device_id, {})
SensorDataOf(data, device_id) ==
    IF data[1].keys /\ device_id \in DOMAIN data[1].sensors
    THEN data[1].sensors[device_id]
    ELSE EmptyFn

\* sensor.py lines 56-118: the entities of one device, one per sensor type
\* its sensor data holds.
RECURSIVE DeviceEntities(_, _, _)
DeviceEntities(device, sensor_data, t) ==
    IF t > Len(SensorTypes) THEN <<>>
    ELSE (IF SensorTypes[t] \in DOMAIN sensor_data
          THEN <<[device_id |-> device.id, sensor_type |-> SensorTypes[t]]>>
          ELSE <<>>)
         \o DeviceEntities(device, sensor_data, t + 1)

\* sensor.py lines 44-120: the entities async_setup_entry adds.
RECURSIVE EntitiesFrom(_, _)
EntitiesFrom(data, i) ==
    IF i > Len(data[1].devices) THEN <<>>
    ELSE DeviceEntities(data[1].devices[i],
                        SensorDataOf(data, data[1].devices[i].id), 1)
         \o EntitiesFrom(data, i + 1)

SetupEntities(data) ==
    IF DataTruthy(data) THEN EntitiesFrom(data, 1) ELSE <<>>

\* round(float(value), 2): the readings of the model are whole numbers.
Round2(v) == (v * 100) \div 100

\* SenzomaticSensor.native_value, lines 161-173 (None: no value).
native_value(c, e) ==
    IF ~DataTruthy(c.data) THEN None
    ELSE LET sensor_data == SensorDataOf(c.data, e.device_id)
         IN  IF e.sensor_type \in DOMAIN sensor_data
             THEN Some(Round2(sensor_data[e.sensor_type]))
             ELSE None

\* SenzomaticSensor.available, lines 175-182.
available(c, e) ==
    /\ c.last_update_success
    /\ c.data # None
    /\ c.data[1].keys
    /\ e.device_id \in DOMAIN c.data[1].sensors

\* _async_update_data, lines 60-65, and what the coordinator does with its
\* outcome: the returned value becomes the data and the update counts as
\* successful; UpdateFailed makes it unsuccessful and keeps the data.
Refreshed(c, r) ==
    IF r.kind = "exception"
    THEN [c EXCEPT !.last_update_success = FALSE]
    ELSE [c EXCEPT !.data = Some(r.snapshot), !.last_update_success = TRUE]

-----------------------------------------------------------------------------
(* The client *)

NoArg == [device_id |-> "", metric |-> ""]

\* A log entry: the request, the status of its response (0: the request
\* raised) and, for a login POST answered 200, the body.  The entry of a metric
\* request names the device and the metric instead; its response is lastResp.
\* Where the history is asked to keep whole responses (`track`), resp is the
\* response; elsewhere it is NoResp.
StatusOf(r) == IF r.exc THEN 0 ELSE r.status

Req(kind, r) ==
    [req |-> kind, status |-> StatusOf(r),
     body |-> IF kind = "login_post" /\ StatusOf(r) = 200 THEN r.content ELSE <<>>,
     dev |-> "", metric |-> "", resp |-> NoResp]

MetricReq(dev, metric) ==
    [req |-> "metric_get", status |-> 0, body |-> <<>>, dev |-> dev, metric |-> metric,
     resp |-> NoResp]

Tracked(entry, r, track) == IF track THEN [entry EXCEPT !.resp = r] ELSE entry

NoResult == [keys |-> TRUE, devices |-> <<>>, sensors |-> EmptyFn]

\* The call state and the history before the first call.
InitRest ==
    /\ op = "none"
    /\ pc = "idle"
    /\ ret = RetNone
    /\ devices = <<>>
    /\ di = 0
    /\ mi = 0
    /\ device_data = EmptyFn
    /\ result = NoResult
    /\ arg = NoArg
    /\ found = None
    /\ log = <<>>
    /\ pre = [authenticated |-> authenticated, installation_id |-> installation_id]
    /\ authRan = "no"
    /\ fault = FALSE
    /\ page = <<>>
    /\ lastResp = NoResp
    /\ coord = CoordInit

\* __init__, lines 37-39.
Init ==
    /\ authenticated = FALSE
    /\ installation_id = None
    /\ InitRest

\* Mutant of NeedsAuth: every call authenticates again.
NeedsAuth_Always == TRUE

\* Lines 195, 256, 295: `if not self.authenticated`.
NeedsAuth == ~authenticated

\* The caller starts public operation o; its first request is `first`, or the
\* login page when it authenticates first.
Begin(o, a, first) ==
    /\ pc = "idle"
    /\ op' = o
    /\ pc' = first
    /\ ret' = RetNone
    /\ devices' = <<>>
    /\ di' = 0
    /\ mi' = 0
    /\ device_data' = EmptyFn
    /\ result' = NoResult
    /\ arg' = a
    /\ found' = None
    /\ log' = <<>>
    /\ pre' = [authenticated |-> authenticated, installation_id |-> installation_id]
    /\ authRan' = "no"
    /\ fault' = FALSE
    /\ page' = <<>>
    /\ lastResp' = NoResp
    /\ UNCHANGED <<authenticated, installation_id>>

CallAuthenticate ==
    /\ Begin("authenticate", NoArg, "login_get")
    /\ UNCHANGED coord

CallGetDeviceList ==
    /\ Begin("get_device_list", NoArg,
             IF NeedsAuth THEN "login_get" ELSE "dashboard_get")
    /\ UNCHANGED coord

CallGetSensorData ==
    /\ \E d \in {"u1"}, m \in {metrics[1], metrics[4]} :
          Begin("get_sensor_data", [device_id |-> d, metric |-> m],
                IF NeedsAuth THEN "login_get" ELSE "metric_get")
    /\ UNCHANGED coord

\* async_get_data, begun by a caller other than the coordinator.
BeginGetData ==
    Begin("get_data", NoArg, IF NeedsAuth THEN "login_get" ELSE "dashboard_get")

CallGetData ==
    /\ BeginGetData
    /\ UNCHANGED coord

\* The public operation returns r.
Finish(r) ==
    /\ pc' = "idle"
    /\ ret' = r

\* Mutant of AfterAuth: the result of async_authenticate is not looked at.
AfterAuth_Unchecked(ok) ==
    CASE op = "authenticate" -> Finish(RetBool(ok))
      [] op \in {"get_device_list", "get_data"} -> pc' = "dashboard_get" /\ ret' = ret
      [] op = "get_sensor_data" -> pc' = "metric_get" /\ ret' = ret

\* What the caller of async_authenticate does with its result: lines 196-197,
\* 257-258, 296-301.
AfterAuth(ok) ==
    CASE op = "authenticate" -> Finish(RetBool(ok))
      [] op = "get_device_list" ->
            IF ok THEN pc' = "dashboard_get" /\ ret' = ret
            ELSE Finish(RetList(<<>>))
      [] op = "get_sensor_data" ->
            IF ok THEN pc' = "metric_get" /\ ret' = ret
            ELSE Finish(RetMap(EmptyMap))
      [] op = "get_data" ->
            IF ok THEN pc' = "dashboard_get" /\ ret' = ret
            ELSE Finish(RetSnapshot(EmptyDict))

\* One request of async_authenticate: response r, with outcome `out`.
AuthApply(kind, r, out, track) ==
    LET o == async_authenticate_except(out)
    IN  /\ log' = Append(log, Tracked(Req(kind, r), r, track))
        /\ fault' = (fault \/ out.failed)
        /\ authenticated' = o.auth
        /\ installation_id' = o.inst
        /\ found' = IF o.exc \/ o.returned THEN None ELSE o.found
        /\ IF o.exc
           THEN authRan' = "raised" /\ Finish(RetRaise)
           ELSE IF ~o.returned
           THEN authRan' = authRan /\ pc' = o.next /\ ret' = ret
           ELSE authRan' = (IF o.ok THEN "true" ELSE "false") /\ AfterAuth(o.ok)
        /\ UNCHANGED <<op, devices, di, mi, device_data, result, arg, pre, page,
                       lastResp, coord>>

\* The four requests of async_authenticate; with `track` the history keeps
\* the whole response.
LoginPageGet(track) ==
    /\ pc = "login_get"
    /\ \E r \in LoginPageResponses :
          AuthApply("login_get", r, LoginPageStep(r), track)

LoginPost(track) ==
    /\ pc = "login_post"
    /\ \E r \in LoginPostResponses :
          AuthApply("login_post", r, LoginPostStep(r), track)

OAuthGet(track) ==
    /\ pc = "oauth_get"
    /\ \E r \in OAuthResponses :
          AuthApply("oauth_get", r, OAuthStep(r), track)

DashFallbackGet(track) ==
    /\ pc = "dash_fallback_get"
    /\ \E r \in DashFallbackResponses :
          AuthApply("dash_fallback_get", r, DashFallbackStep(r), track)

-----------------------------------------------------------------------------
(* async_get_device_list *)

\* Lines 201-248: the dashboard GET: [exc, list, failed, read: the body was read].
DashboardStep(r) ==
    IF r.exc THEN [exc |-> TRUE, list |-> <<>>, failed |-> TRUE, read |-> FALSE]
    ELSE IF r.status # 200
    THEN [exc |-> FALSE, list |-> <<>>, failed |-> FALSE, read |-> FALSE]
    ELSE IF r.textexc
    THEN [exc |-> TRUE, list |-> <<>>, failed |-> TRUE, read |-> FALSE]
    ELSE [exc |-> FALSE, list |-> ExtractDevices(r.content), failed |-> FALSE,
          read |-> TRUE]

\* Lines 250-252: `except Exception: return []`.
async_get_device_list_except(out) ==
    IF out.exc THEN [out EXCEPT !.exc = FALSE, !.list = <<>>] ELSE out

\* The dashboard request of async_get_device_list, called by the caller or by
\* async_get_data (lines 299-303), with the body drawn from `contents`.
DashboardGet(contents) ==
    /\ pc = "dashboard_get"
    /\ \E r \in DeviceListResponses(contents) :
        LET out == async_get_device_list_except(DashboardStep(r))
        IN  /\ log' = Append(log, Req("dashboard_get", r))
            /\ fault' = (fault \/ out.failed)
            /\ page' = IF out.read THEN r.content ELSE <<>>
            /\ IF out.exc THEN Finish(RetRaise) /\ devices' = devices /\ di' = di /\ mi' = mi
               ELSE IF op = "get_device_list"
               THEN Finish(RetList(out.list)) /\ devices' = devices /\ di' = di /\ mi' = mi
               ELSE /\ devices' = out.list
                    /\ IF out.list = <<>>
                       THEN Finish(RetSnapshot(EmptyDict)) /\ di' = di /\ mi' = mi
                       ELSE pc' = "metric_get" /\ ret' = ret /\ di' = 1 /\ mi' = 1
            /\ UNCHANGED <<authenticated, installation_id, op, device_data, result,
                           arg, found, pre, authRan, lastResp, coord>>

-----------------------------------------------------------------------------
(* async_get_sensor_data and the loop of async_get_data *)

\* Lines 281-287: the metric GET: [exc, data, failed].
SensorDataStep(r) ==
    IF r.exc THEN [exc |-> TRUE, data |-> EmptyMap, failed |-> TRUE]
    ELSE IF r.status # 200 THEN [exc |-> FALSE, data |-> EmptyMap, failed |-> FALSE]
    ELSE IF r.jsonexc THEN [exc |-> TRUE, data |-> EmptyMap, failed |-> TRUE]
    ELSE [exc |-> FALSE, data |-> r.json, failed |-> FALSE]

\* Lines 289-291: `except Exception: return {}`.
async_get_sensor_data_except(out) ==
    IF out.exc THEN [out EXCEPT !.exc = FALSE, !.data = EmptyMap] ELSE out

\* Mutant of async_get_data_except: the exception leaves the loop.
async_get_data_uncaught(rd) == rd

\* Lines 335-336: the per-metric `except Exception` of async_get_data.
async_get_data_except(rd) ==
    IF rd.exc THEN NoReading ELSE rd

\* Line 333: device_data[metric] = float(latest_value).
WithReading(dd, metric, rd) ==
    IF rd.has THEN (metric :> rd.value) @@ dd ELSE dd

\* Mutant of WithDevice: every listed device joins the snapshot.
WithDevice_Always(res, device, dd) ==
    [res EXCEPT !.devices = Append(@, device),
                !.sensors = (device.id :> dd) @@ @]

\* Lines 339-341: a device with readings joins the snapshot.
WithDevice(res, device, dd) ==
    IF DOMAIN dd # {}
    THEN [res EXCEPT !.devices = Append(@, device),
                     !.sensors = (device.id :> dd) @@ @]
    ELSE res

\* The metric request of async_get_sensor_data, called by the caller or by
\* the loop of async_get_data (lines 313-343), with the document drawn from
\* `jsons`; the response is kept in the history for a call by the caller, and
\* for the loop when `track` is set.
MetricGet(jsons, track) ==
    /\ pc = "metric_get"
    /\ \E r \in MetricResponses(jsons) :
        LET dev == IF op = "get_data" THEN devices[di].uuid ELSE arg.device_id
            metric == IF op = "get_data" THEN metrics[mi] ELSE arg.metric
            raw == SensorDataStep(r)
            sd == async_get_sensor_data_except(raw)
            got == IF sd.exc THEN [NoReading EXCEPT !.exc = TRUE]
                   ELSE ExtractLatest(sd.data)
            rd == async_get_data_except(got)
            dd == WithReading(device_data, metric, rd)
            res == WithDevice(result, devices[di], dd)
        IN  /\ log' = Append(log, Tracked(MetricReq(dev, metric), r, track))
            /\ lastResp' = IF track \/ op = "get_sensor_data" THEN r ELSE NoResp
            /\ IF op = "get_sensor_data"
               THEN /\ fault' = (fault \/ raw.failed)
                    /\ IF sd.exc THEN Finish(RetRaise) ELSE Finish(RetMap(sd.data))
                    /\ UNCHANGED <<di, mi, device_data, result>>
               ELSE /\ fault' = (fault \/ raw.failed \/ got.exc)
                    /\ IF rd.exc
                       THEN Finish(RetRaise) /\ UNCHANGED <<di, mi, device_data, result>>
                       ELSE IF mi < Len(metrics)
                       THEN /\ mi' = mi + 1
                            /\ device_data' = dd
                            /\ UNCHANGED <<pc, ret, di, result>>
                       ELSE /\ result' = res
                            /\ IF di < Len(devices)
                               THEN /\ di' = di + 1
                                    /\ mi' = 1
                                    /\ device_data' = EmptyFn
                                    /\ UNCHANGED <<pc, ret>>
                               ELSE /\ Finish(RetSnapshot(res))
                                    /\ device_data' = dd
                                    /\ UNCHANGED <<di, mi>>
            /\ UNCHANGED <<authenticated, installation_id, op, devices, arg, found,
                           pre, authRan, page, coord>>

-----------------------------------------------------------------------------
(* The client under any sequence of public calls and upstream answers *)

Next ==
    \/ CallAuthenticate
    \/ CallGetDeviceList
    \/ CallGetSensorData
    \/ CallGetData
    \/ LoginPageGet(FALSE)
    \/ LoginPost(FALSE)
    \/ OAuthGet(FALSE)
    \/ DashFallbackGet(FALSE)
    \/ DashboardGet(FewContents)
    \/ MetricGet(MetricJsons, FALSE)

Spec == Init /\ [][Next]_vars

(* The device list of an authenticated client, over every dashboard body of *)
(* up to MaxEntries entries.                                                *)

InitDevices ==
    /\ authenticated = TRUE
    /\ installation_id = Some(UrlId)
    /\ InitRest

NextDevices ==
    \/ CallGetDeviceList
    \/ DashboardGet(AllContents)

SpecDevices == InitDevices /\ [][NextDevices]_vars

(* async_get_data of an authenticated client, the history keeping every     *)
(* metric response: one listed device with every metric document, or two    *)
(* listed devices with one document.                                        *)

DataContents == { <<E_first>>, <<E_first, E_second>> }

AllJsons == MetricJsons \cup LongMetricJsons

FewJsons == { Json("dict", "dict", << <<Sample("1000", "1"), Sample("1300", "2")>> >>) }

MetricGetOne == Len(devices) = 1 /\ MetricGet(AllJsons, TRUE)

MetricGetTwo == Len(devices) = 2 /\ MetricGet(FewJsons, TRUE)

InitData ==
    /\ authenticated = TRUE
    /\ installation_id = Some(UrlId)
    /\ InitRest

NextData ==
    \/ CallGetData
    \/ DashboardGet(DataContents)
    \/ MetricGetOne
    \/ MetricGetTwo

SpecData == InitData /\ [][NextData]_vars

(* async_authenticate on a fresh client and again after it returned, the    *)
(* history keeping every response.                                          *)

NextAuth ==
    \/ CallAuthenticate
    \/ LoginPageGet(TRUE)
    \/ LoginPost(TRUE)
    \/ OAuthGet(TRUE)
    \/ DashFallbackGet(TRUE)

SpecAuth == Init /\ [][NextAuth]_vars

-----------------------------------------------------------------------------
(* The host: a coordinator built on a fresh client (__init__.py lines       *)
(* 23-31), its first refresh, the set-up of the sensor platform and the     *)
(* later polls.                                                             *)

clientVars == <<authenticated, installation_id, op, pc, ret, devices, di, mi,
                device_data, result, arg, found, log, pre, authRan, fault, page,
                lastResp>>

\* __init__.py line 33: async_config_entry_first_refresh calls
\* _async_update_data, which calls async_get_data (line 63).
FirstRefresh ==
    /\ coord.phase = "new"
    /\ BeginGetData
    /\ coord' = [coord EXCEPT !.phase = "first_refresh"]

\* A later refresh, every update_interval (line 57).
Poll ==
    /\ coord.phase = "running"
    /\ BeginGetData
    /\ coord' = [coord EXCEPT !.phase = "polling"]

\* async_get_data has returned to _async_update_data (lines 62-65); a first
\* refresh that failed ends the set-up of the entry.
PollDone ==
    /\ coord.phase \in {"first_refresh", "polling"}
    /\ op = "get_data"
    /\ pc = "idle"
    /\ LET c == Refreshed(coord, ret)
       IN  coord' =
             IF coord.phase = "polling" THEN [c EXCEPT !.phase = "running"]
             ELSE IF c.last_update_success
             THEN [c EXCEPT !.phase = "refreshed", !.first = c.data]
             ELSE [c EXCEPT !.phase = "not_ready"]
    /\ UNCHANGED clientVars

\* Mutant of SetupDue: the platform is set up again after every poll.
SetupDue_EveryPoll == coord.phase \in {"refreshed", "running"}

\* __init__.py line 37: the platforms are set up once, after the first refresh.
SetupDue == coord.phase = "refreshed"

\* sensor.py async_setup_entry, lines 34-120.
Setup ==
    /\ SetupDue
    /\ coord' = [coord EXCEPT !.entities = SetupEntities(coord.data),
                              !.phase = "running"]
    /\ UNCHANGED clientVars

\* The dashboards and metric documents of the polls.
PollContents == { <<>>, <<E_first>>, <<E_second>> }

PollJsons == { Json("dict", "dict", << <<Sample("1000", "1")>> >>) }

NextPolls ==
    \/ FirstRefresh
    \/ Setup
    \/ Poll
    \/ PollDone
    \/ LoginPageGet(FALSE)
    \/ LoginPost(FALSE)
    \/ OAuthGet(FALSE)
    \/ DashFallbackGet(FALSE)
    \/ DashboardGet(PollContents)
    \/ MetricGet(PollJsons, FALSE)

SpecPolls == Init /\ [][NextPolls]_vars

-----------------------------------------------------------------------------
(* Properties *)

GetOps == {"get_device_list", "get_sensor_data", "get_data"}

AuthReqs == {"login_get", "login_post", "oauth_get", "dash_fallback_get"}

DataReqs == {"dashboard_get", "metric_get"}

\* The public operation has returned (or raised) and no other has begun.
Done(o) == op = o /\ pc = "idle"

\* The call issued request `kind`, answered with `status`.
Answered(kind, status) ==
    \E i \in 1..Len(log) : log[i].req = kind /\ log[i].status = status

Issued(kinds) == \E i \in 1..Len(log) : log[i].req \in kinds

\* The empty fallback of a public operation.
Fallback(o) ==
    CASE o = "authenticate" -> RetBool(FALSE)
      [] o = "get_device_list" -> RetList(<<>>)
      [] o = "get_sensor_data" -> RetMap(EmptyMap)
      [] o = "get_data" -> RetSnapshot(EmptyDict)

\* C1: whenever async_authenticate returns true (called by the caller or by
\* another operation), authenticated is true and installation_id is a
\* non-empty text, from the state right after the call on.
C1_TrueMeansNonEmptyId ==
    authRan = "true" => authenticated /\ Truthy(installation_id)

\* C2: when the login POST answers 200, whatever the body, async_authenticate
\* returns false at once: the session state is what it was when the call
\* began (authenticated stays false on a fresh client), no OAuth request
\* follows, and a direct call returns false.
C2_Post200Fails ==
    Answered("login_post", 200) =>
        /\ authRan = "false"
        /\ ~Issued({"oauth_get", "dash_fallback_get"} \cup DataReqs)
        /\ authenticated = pre.authenticated
        /\ installation_id = pre.installation_id
        /\ pc = "idle"
        /\ ret = Fallback(op)

\* C2's case: a fresh client whose login POST answered 200 with a body that
\* holds no alert or error marker, and the call returned false.
C2_Witness ==
    /\ Done("authenticate")
    /\ ~pre.authenticated
    /\ \E i \in 1..Len(log) :
          log[i].req = "login_post" /\ log[i].status = 200 /\ log[i].body = <<"Welcome">>
    /\ ret = RetBool(FALSE)

\* C3: a response with a status other than 200 (the 302 of the login POST
\* excepted) makes the operation return its fallback: async_authenticate false
\* for its login page, OAuth and generic dashboard requests,
\* async_get_device_list the empty list, async_get_sensor_data the empty map.
C3_Non200YieldsFallback ==
    /\ (\E i \in 1..Len(log) :
            /\ log[i].req \in {"login_get", "oauth_get", "dash_fallback_get"}
            /\ log[i].status \notin {0, 200})
        => authRan = "false"
    /\ (op = "get_device_list" /\ Answered("dashboard_get", 401))
        => pc = "idle" /\ ret = RetList(<<>>)
    /\ (Done("get_sensor_data") /\ Issued({"metric_get"}) /\ ~lastResp.exc
            /\ lastResp.status # 200)
        => ret = RetMap(EmptyMap)

\* C4: no public operation ends with an exception: each returns a value of
\* its own kind, and after a transport error, a missing token, a malformed
\* or ill-shaped JSON document or a non-numeric sample async_authenticate
\* returns false, async_get_device_list the empty list, async_get_sensor_data
\* the empty map and async_get_data a snapshot; the call ends after at most
\* the four requests of the login flow, one dashboard request and four
\* metric requests per listed device (one for async_get_sensor_data).
C4_NoExceptionEscapes ==
    (pc = "idle" /\ op # "none") =>
        /\ ret.kind # "exception"
        /\ ret.kind = Fallback(op).kind
        /\ (fault /\ op # "get_data") => ret = Fallback(op)
        /\ Len(log) <= Cardinality(AuthReqs) + 1 + Len(metrics) * Len(devices)

\* C4's case: async_get_data met a failure and still returned a snapshot that
\* holds a device.
C4_Witness ==
    /\ Done("get_data")
    /\ fault
    /\ ret.kind = "snapshot"
    /\ ret.snapshot.devices # <<>>

\* C5: authenticated never goes from true to false, and while it is true no
\* step of async_get_device_list, async_get_sensor_data or async_get_data
\* issues a request of the login flow.
C5_NoReauthentication ==
    [][ /\ authenticated => authenticated'
        /\ (authenticated /\ op' \in GetOps /\ Len(log') > Len(log))
              => log'[Len(log')].req \notin AuthReqs ]_vars

\* C5's case: an authenticated client whose dashboard request was refused
\* (401): the list is empty, the client is still authenticated and the call
\* issued nothing but the dashboard request.
C5_Witness ==
    /\ Done("get_device_list")
    /\ pre.authenticated
    /\ authenticated
    /\ Len(log) = 1
    /\ log[1].req = "dashboard_get"
    /\ log[1].status = 401
    /\ ret = RetList(<<>>)

\* C6: async_get_device_list, async_get_sensor_data and async_get_data, begun
\* while authenticated is false, issue the login page request first and a
\* dashboard or metric request only after async_authenticate returned true;
\* if it returned false they return their empty fallback and issue no
\* dashboard or metric request; begun while authenticated is true they do not
\* run async_authenticate.
C6_AuthenticateFirstIfNeeded ==
    op \in GetOps =>
        /\ ~pre.authenticated =>
              /\ (pc # "idle" /\ log = <<>>) => pc = "login_get"
              /\ log # <<>> => log[1].req = "login_get"
              /\ Issued(DataReqs) => authRan = "true"
              /\ \A i, j \in 1..Len(log) :
                    (log[i].req \in DataReqs /\ log[j].req \in AuthReqs) => j < i
        /\ authRan = "false" =>
              pc = "idle" /\ ret = Fallback(op) /\ ~Issued(DataReqs)
        /\ pre.authenticated => authRan = "no" /\ ~Issued(AuthReqs)

\* C6's case: async_get_data on a client that is not authenticated, whose
\* authentication failed: the empty snapshot, no dashboard request.
C6_Witness ==
    /\ Done("get_data")
    /\ ~pre.authenticated
    /\ authRan = "false"
    /\ ret = RetSnapshot(EmptyDict)
    /\ Len(log) >= 2

SnapshotIds(snap) == {snap.devices[i].id : i \in 1..Len(snap.devices)}

\* C7: in a non-empty snapshot returned by async_get_data the ids of
\* 'devices' are the keys of 'sensors', every 'sensors' entry holds a value,
\* no device is listed twice, every entry is a listed device, and the last
\* listed device is in the snapshot exactly if a metric gave it a value.
C7_DevicesMatchSensors ==
    (Done("get_data") /\ ret.kind = "snapshot" /\ ret.snapshot.keys) =>
        LET snap == ret.snapshot
        IN  /\ SnapshotIds(snap) = DOMAIN snap.sensors
            /\ \A u \in DOMAIN snap.sensors : DOMAIN snap.sensors[u] # {}
            /\ \A i, j \in 1..Len(snap.devices) :
                  snap.devices[i].id = snap.devices[j].id => i = j
            /\ \A i \in 1..Len(snap.devices) :
                  \E k \in 1..Len(devices) : devices[k] = snap.devices[i]
            /\ (devices[Len(devices)].id \in DOMAIN snap.sensors)
                  <=> (DOMAIN device_data # {})
            /\ (DOMAIN device_data # {})
                  => snap.sensors[devices[Len(devices)].id] = device_data

\* C7's case: two devices were listed, the first one got a value and the
\* second got none: the snapshot holds the first only.
C7_Witness ==
    /\ Done("get_data")
    /\ ret.kind = "snapshot"
    /\ Len(devices) = 2
    /\ Len(ret.snapshot.devices) = 1
    /\ DOMAIN ret.snapshot.sensors = {devices[1].id}
    /\ DOMAIN device_data = {}

\* The label and the hardware model of a dashboard entry: the values of its
\* "label" field and of its "hw_part" or "model" field.
EntryHas(e, label, model) ==
    \E i, j \in 1..Len(e.fields) :
        /\ e.fields[i].n = "label"
        /\ Strip(e.fields[i].v) = label
        /\ e.fields[j].n \in {"hw_part", "model"}
        /\ Strip(e.fields[j].v) = model

UsableModel(m) ==
    /\ Strip(m) # <<>>
    /\ Lower(Strip(m)) \notin Placeholders
    /\ Len(Strip(m)) > 2

\* C8: every device async_get_device_list returns is an entry of the
\* dashboard with that uuid, whose label is the device's name and whose
\* hw_part or model is the device's model, a usable one.
C8_DeviceIsDashboardEntry ==
    (Done("get_device_list") /\ ret.kind = "list") =>
        \A i \in 1..Len(ret.devices) :
            /\ \E k \in 1..Len(page) :
                  /\ page[k].uuid = ret.devices[i].uuid
                  /\ EntryHas(page[k], ret.devices[i].name, ret.devices[i].model)
            /\ UsableModel(ret.devices[i].model)

\* C9: no device async_get_device_list returns has a model that, trimmed, is
\* empty, is 'unknown', 'null' or 'none' in any letter case, or has 2
\* characters or fewer; and none has an empty name.
C9_NoPlaceholderModel ==
    (Done("get_device_list") /\ ret.kind = "list") =>
        \A i \in 1..Len(ret.devices) :
            /\ UsableModel(ret.devices[i].model)
            /\ ret.devices[i].name # <<>>

\* C9's case: the dashboard listed a device whose model is ' nOnE ' and one
\* with a usable model: only the second is returned.
C9_Witness ==
    /\ Done("get_device_list")
    /\ Len(page) = 2
    /\ page[1] = E_poor
    /\ page[2].uuid = "u2"
    /\ Len(ret.devices) = 1
    /\ ret.devices[1].uuid = "u2"

\* All matches of all patterns, in pattern order and, within a pattern, in
\* page order.
RECURSIVE AllMatches(_, _)
AllMatches(p, content) ==
    IF p > Len(device_uuid_patterns) THEN <<>>
    ELSE findall(device_uuid_patterns[p], content) \o AllMatches(p + 1, content)

\* C10: for every uuid with an accepted match, async_get_device_list returns
\* exactly one device, the one of the last accepted match of that uuid in
\* pattern order; it returns no device of another uuid; a later match that
\* fails the filter changes nothing.
C10_LastPatternWins ==
    (Done("get_device_list") /\ ret.kind = "list" /\ page # <<>>) =>
        LET ms == AllMatches(1, page)
            acc == {i \in 1..Len(ms) : MatchAccepted(ms[i])}
            lastOf(u) == CHOOSE i \in acc :
                            /\ ms[i][1] = u
                            /\ \A j \in acc : ms[j][1] = u => j <= i
        IN  /\ \A i \in acc :
                  Cardinality({k \in 1..Len(ret.devices) :
                                  ret.devices[k].uuid = ms[i][1]}) = 1
            /\ \A k \in 1..Len(ret.devices) :
                  /\ \E i \in acc : ms[i][1] = ret.devices[k].uuid
                  /\ ret.devices[k] = MatchDevice(ms[lastOf(ret.devices[k].uuid)])

\* C10's case: one uuid under two labels, matched by the first and by the
\* second pattern, both accepted: one device, with the second pattern's label.
C10_Witness ==
    /\ Done("get_device_list")
    /\ page = << Entry("bare", "u1", <<Field("label", V_Kit), Field("hw_part", V_MHT02)>>),
                 Entry("id", "u1", <<Field("label", V_Hall), Field("hw_part", V_HT03)>>) >>
    /\ Len(ret.devices) = 1
    /\ ret.devices[1].name = Strip(V_Hall)

\* The entries of the log that are metric requests.
MetricEntries == {i \in 1..Len(log) : log[i].req = "metric_get"}

\* Response r is a 200 whose body parses to a document with a "data" object.
HasDocument(r) ==
    /\ ~r.exc
    /\ r.status = 200
    /\ ~r.jsonexc
    /\ r.json.top = "dict"
    /\ r.json.data = "dict"

\* The samples of the first result series of r's document.
FirstSeries(r) == r.json.result[1]

\* r's first result series has samples and the last one holds a number.
HasLatest(r) ==
    /\ HasDocument(r)
    /\ r.json.result # <<>>
    /\ FirstSeries(r) # <<>>
    /\ Len(FirstSeries(r)[Len(FirstSeries(r))]) >= 2
    /\ IsNumeric(FirstSeries(r)[Len(FirstSeries(r))][2])

LatestOf(r) == ParseFloat(FirstSeries(r)[Len(FirstSeries(r))][2])

\* The reading snapshot snap holds for a device and a metric, if any.
Reading(snap, dev, metric) ==
    IF snap.keys /\ dev \in DOMAIN snap.sensors /\ metric \in DOMAIN snap.sensors[dev]
    THEN Some(snap.sensors[dev][metric])
    ELSE None

\* C11: for every metric response whose first result series has samples, the
\* last one numeric, the snapshot async_get_data returns holds for that device
\* and metric the number of the last sample of that series; when the result
\* list or the sample list is empty it holds no reading for that metric.
C11_LatestSampleStored ==
    Done("get_data") =>
        \A i \in MetricEntries :
            LET r == log[i].resp
                stored == Reading(ret.snapshot, log[i].dev, log[i].metric)
            IN  /\ ret.kind = "snapshot"
                /\ HasLatest(r) => stored = Some(LatestOf(r))
                /\ (HasDocument(r)
                      /\ (r.json.result = <<>> \/ FirstSeries(r) = <<>>))
                    => stored = None

\* C11's case: a metric answered with the samples 1 then 2 and another with
\* 2 then 1; the snapshot holds 2 for the first and 1 for the second.
C11_Witness ==
    /\ Done("get_data")
    /\ \E i, j \in MetricEntries :
          /\ log[i].resp.json.result = << <<Sample("1000", "1"), Sample("1300", "2")>> >>
          /\ log[j].resp.json.result = << <<Sample("1000", "2"), Sample("1300", "1")>> >>
          /\ Reading(ret.snapshot, log[i].dev, log[i].metric) = Some(2)
          /\ Reading(ret.snapshot, log[j].dev, log[j].metric) = Some(1)

\* The fetch behind log entry i gave no value: the request raised, answered
\* with another status than 200, or its body held no number to take.
FetchFailed(r) == ~HasLatest(r)

\* C12: in async_get_data a metric fetch that fails (exception, empty map,
\* non-numeric sample) costs only its own reading: the call still returns a
\* snapshot, every metric of every listed device was requested, the failed
\* pair has no reading and every pair whose fetch gave a value has that value
\* in the snapshot.
C12_FailureIsPerMetric ==
    (Done("get_data") /\ devices # <<>>) =>
        /\ ret.kind = "snapshot"
        /\ \A k \in 1..Len(devices), t \in 1..Len(metrics) :
              \E i \in MetricEntries :
                  log[i].dev = devices[k].uuid /\ log[i].metric = metrics[t]
        /\ \A i \in MetricEntries :
              Reading(ret.snapshot, log[i].dev, log[i].metric)
                  = IF FetchFailed(log[i].resp) THEN None
                    ELSE Some(LatestOf(log[i].resp))

\* C12's case: two listed devices; the first request of the first device
\* raised and a request of the second device answered 500, the other six gave
\* a value: both devices are in the snapshot, with three readings each.
C12_Witness ==
    /\ Done("get_data")
    /\ Len(devices) = 2
    /\ log[2].resp.exc
    /\ \E i \in MetricEntries : log[i].dev = devices[2].uuid /\ log[i].resp.status = 500
    /\ Cardinality({i \in MetricEntries : FetchFailed(log[i].resp)}) = 2
    /\ Len(ret.snapshot.devices) = 2
    /\ \A k \in 1..2 :
          Cardinality(DOMAIN ret.snapshot.sensors[devices[k].uuid]) = 3

\* The coordinator has taken the outcome of its latest refresh.
PollTaken ==
    /\ op = "get_data"
    /\ pc = "idle"
    /\ coord.phase \in {"refreshed", "running", "not_ready"}

\* C13: a poll whose async_get_data returned the empty snapshot (failed
\* authentication, failed dashboard request, no device) is an update failure
\* for the coordinator: its last update does not count as successful.
C13_EmptySnapshotIsFailure ==
    (PollTaken /\ ret = RetSnapshot(EmptyDict)) => ~coord.last_update_success

\* The entities of the platform.
Entities == {coord.entities[i] : i \in 1..Len(coord.entities)}

\* The current snapshot holds a value for the entity's device and metric.
HoldsValue(c, e) ==
    /\ c.data # None
    /\ Reading(c.data[1], e.device_id, e.sensor_type) # None

\* C14: between polls an entity is unavailable whenever the current snapshot
\* holds no value for its metric of its device or the last poll failed; it is
\* available with a value only when the snapshot holds a value for that
\* device and metric, and the value is that one.
C14_UnavailableWithoutValue ==
    coord.phase = "running" =>
        \A e \in Entities :
            /\ (~HoldsValue(coord, e) \/ ~coord.last_update_success)
                  => ~available(coord, e)
            /\ (available(coord, e) /\ native_value(coord, e) # None)
                  => /\ HoldsValue(coord, e)
                     /\ native_value(coord, e)
                          = Reading(coord.data[1], e.device_id, e.sensor_type)

\* The (device, metric) pairs that have a value in the data `data`.
PairsOf(data) ==
    IF data = None \/ ~data[1].keys THEN {}
    ELSE UNION { {[device_id |-> d, sensor_type |-> t] : t \in DOMAIN data[1].sensors[d]} :
                 d \in DOMAIN data[1].sensors }

\* C19: once the sensor platform is set up its entities are the (device,
\* metric) pairs that have a value in the snapshot of the first refresh, each
\* once (none if that snapshot is empty), whatever the later polls return; and
\* no step after the set-up changes the list.
C19_EntitiesFixedAtSetup ==
    coord.phase \in {"running", "polling"} =>
        /\ Entities = PairsOf(coord.first)
        /\ Cardinality(Entities) = Len(coord.entities)

\* C19's case: the first refresh gave one device with temperature only; a
\* later poll gave another device, with moisture: it has no entity.
C19_Witness ==
    /\ coord.phase = "running"
    /\ Entities = {[device_id |-> "u1", sensor_type |-> SENSOR_TEMPERATURE]}
    /\ HoldsValue(coord, [device_id |-> "u2", sensor_type |-> SENSOR_MOISTURE])

\* The text holds a segment '/charts/<id>' with an id.
HasChartsId(url) == Contains(url, CHARTS) /\ ChartsSegment(url) # <<>>

\* C15: a login POST answered 302 with a Location that holds '/charts/<id>'
\* ends async_authenticate at once: <id> is stored, authenticated is set, the
\* call returns true and issues no OAuth and no generic dashboard request;
\* an OAuth request is only issued after a login POST answered 302 with a
\* Location without such a segment.
C15_RedirectShortCircuits ==
    \A i \in 1..Len(log) :
        /\ (log[i].req = "login_post" /\ log[i].status = 302
                /\ HasChartsId(log[i].resp.location))
            => /\ Len(log) = i
               /\ pc = "idle"
               /\ authRan = "true"
               /\ ret = RetBool(TRUE)
               /\ authenticated
               /\ installation_id = Some(ChartsSegment(log[i].resp.location))
        /\ log[i].req = "oauth_get"
            => /\ i > 1
               /\ log[i - 1].req = "login_post"
               /\ log[i - 1].status = 302
               /\ ~HasChartsId(log[i - 1].resp.location)

\* C15's case: the login POST was redirected to '/cs/charts/abc-123?locale=cs':
\* two requests, the id is 'abc-123'.
C15_Witness ==
    /\ Done("authenticate")
    /\ Len(log) = 2
    /\ log[2].status = 302
    /\ log[2].resp.location = ChartsUrl \o UrlId \o <<"?", "locale=cs">>
    /\ installation_id = Some(UrlId)
    /\ authenticated
    /\ ret = RetBool(TRUE)

\* Response r was received and its body can be read.
Readable(r) == ~r.exc /\ ~r.textexc

\* The first of the ids (optional texts) that is non-empty, None without one.
RECURSIVE FirstNonEmpty(_)
FirstNonEmpty(ids) ==
    IF ids = <<>> THEN None
    ELSE IF Truthy(Head(ids)) THEN Head(ids)
    ELSE FirstNonEmpty(Tail(ids))

\* C16: after an OAuth GET answered 200 the installation id is what the first
\* of the four strategies, in order, yields as a non-empty id: the '/charts/'
\* segment of the OAuth final url, the OAuth body patterns, the '/charts/'
\* segment of the generic dashboard's final url, the generic dashboard's body
\* patterns.  The dashboard request is issued exactly when the first two
\* yielded none, and authentication fails exactly when all four yield none.
C16_FirstStrategyWins ==
    \A i \in 1..Len(log) :
        (log[i].req = "oauth_get" /\ log[i].status = 200 /\ Readable(log[i].resp)) =>
            LET r1 == log[i].resp
                s1 == IdFromUrl(r1.url)
                s2 == SearchPatterns(id_patterns, r1.content, None)
                early == FirstNonEmpty(<<s1, s2>>)
            IN  IF early # None
                THEN /\ Len(log) = i
                     /\ authRan = "true"
                     /\ installation_id = early
                ELSE \/ Len(log) = i /\ pc = "dash_fallback_get"
                     \/ /\ Len(log) = i + 1
                        /\ log[i + 1].req = "dash_fallback_get"
                        /\ pc = "idle"
                        /\ Readable(log[i + 1].resp) =>
                              LET r2 == log[i + 1].resp
                                  s3 == IdFromUrl(r2.url)
                                  s4 == SearchPatterns(chart_patterns, r2.content, None)
                                  late == FirstNonEmpty(<<s3, s4>>)
                              IN  IF late # None
                                  THEN authRan = "true" /\ installation_id = late
                                  ELSE authRan = "false"

\* The number of requests of the login flow in the log.
AuthCount == Cardinality({i \in 1..Len(log) : log[i].req \in AuthReqs})

\* C17: the requests of one async_get_data call come one after the other in
\* a fixed order: the requests of the login flow (only on a client that was
\* not authenticated), then one dashboard request, then for each listed
\* device in list order its four metric requests in the order temperature,
\* relative humidity, absolute humidity, moisture: 4*N metric requests for N
\* listed devices when the call has returned.
C17_RequestsInFixedOrder ==
    op = "get_data" =>
        /\ \A i \in 1..Len(log) :
              /\ log[i].req \in AuthReqs <=> i <= AuthCount
              /\ log[i].req = "dashboard_get" <=> i = AuthCount + 1
              /\ i > AuthCount + 1 =>
                    LET k == i - AuthCount - 2
                    IN  /\ log[i].req = "metric_get"
                        /\ (k \div 4) + 1 <= Len(devices)
                        /\ log[i].dev = devices[(k \div 4) + 1].uuid
                        /\ log[i].metric = SensorTypes[(k % 4) + 1]
        /\ AuthCount > 0 => ~pre.authenticated
        /\ (pc = "idle" /\ devices # <<>>)
              => Len(log) = AuthCount + 1 + 4 * Len(devices)
        /\ (pc = "idle" /\ devices = <<>>) => Len(log) <= AuthCount + 1

\* C17's case: a client that was not authenticated listed two devices: the
\* login requests, the dashboard request and eight metric requests, the
\* last one for the moisture of the second device.
C17_Witness ==
    /\ Done("get_data")
    /\ ~pre.authenticated
    /\ Len(devices) = 2
    /\ AuthCount >= 2
    /\ Len(log) = AuthCount + 9
    /\ log[Len(log)].dev = devices[2].uuid
    /\ log[Len(log)].metric = SENSOR_MOISTURE
    /\ log[AuthCount + 2].dev = devices[1].uuid
    /\ log[AuthCount + 2].metric = SENSOR_TEMPERATURE

\* C18: a call of async_authenticate that returns false leaves authenticated
\* and installation_id as they were when the call began, also on a client
\* that was authenticated already.
C18_FailedAuthChangesNothing ==
    authRan = "false" =>
        /\ authenticated = pre.authenticated
        /\ installation_id = pre.installation_id

=============================================================================
